---- MODULE Spec2Model ----
(***************************************************************************)
(* Model of backup.go (Mille-Volts/gcp-backups): the snapshot name         *)
(* synthesis of createSnapshotForDisk and the create-then-delete           *)
(* orchestration of main with its goroutines and channels.                 *)
(*                                                                         *)
(* Strings are sequences of one-character strings.  Go's 0-based indices   *)
(* are kept in the state (startPartEnd, endPartStart, diskIndex, ...);     *)
(* only the sequence accesses add 1.                                       *)
(***************************************************************************)
EXTENDS Integers, Sequences, FiniteSets, Bags, TLC

\* ------------------------------------------------------------- bounds

\* longest disk name explored by the name synthesis specification
MaxNameLen == 6
\* largest initial spaceLeft explored by the name synthesis specification
MaxSpace == 7
\* most disks the provider lists
MaxDisks == 2
\* most pre-existing snapshots the provider lists for one disk
MaxSnaps == 2
\* largest --limit explored (0..MaxLimit)
MaxLimit == 2

\* -------------------------------------------------- program constants

\* maxSnapshotName := 55
MaxSnapshotName == 55
\* len(timePart): the twelve digits of %04d%02d%02d%02d%02d
TimePartLen == 12

\* ------------------------------------------------------------ strings

Hyphen == "-"

\* the characters disk names are built from
NameChars == {"a", Hyphen}

RECURSIVE Repeat(_, _)
Repeat(c, n) == IF n <= 0 THEN <<>> ELSE <<c>> \o Repeat(c, n - 1)

\* all strings over chars of length lo..hi
StringsOf(chars, lo, hi) == UNION {[1..n -> chars] : n \in lo..hi}

\* strings.Split(s, sep) for a one-character sep: k separators give k+1 parts
RECURSIVE Split(_, _)
Split(s, sep) ==
  IF \A i \in 1..Len(s) : s[i] # sep
  THEN <<s>>
  ELSE LET i == CHOOSE i \in 1..Len(s) :
                  s[i] = sep /\ \A j \in 1..(i - 1) : s[j] # sep
       IN  <<SubSeq(s, 1, i - 1)>> \o Split(SubSeq(s, i + 1, Len(s)), sep)

\* strings.Join(parts, sep)
RECURSIVE Join(_, _)
Join(parts, sep) ==
  IF Len(parts) = 0 THEN <<>>
  ELSE IF Len(parts) = 1 THEN parts[1]
  ELSE parts[1] \o sep \o Join(Tail(parts), sep)

\* strings.Replace(s, old, new, -1) for a non-empty old: one left-to-right
\* pass over non-overlapping matches; the replacement text is not rescanned
RECURSIVE Replace(_, _, _)
Replace(s, old, new) ==
  IF Len(s) < Len(old) THEN s
  ELSE IF SubSeq(s, 1, Len(old)) = old
       THEN new \o Replace(SubSeq(s, Len(old) + 1, Len(s)), old, new)
       ELSE <<s[1]>> \o Replace(Tail(s), old, new)

\* decimal digits of n >= 0, most significant first
DigitChars == <<"0", "1", "2", "3", "4", "5", "6", "7", "8", "9">>

RECURSIVE Digits(_)
Digits(n) ==
  IF n < 10 THEN <<DigitChars[n + 1]>>
  ELSE Digits(n \div 10) \o <<DigitChars[(n % 10) + 1]>>

\* fmt's %0<width>d for n >= 0: zero-padded to at least width characters
PadInt(n, width) ==
  LET d == Digits(n) IN Repeat("0", width - Len(d)) \o d

\* fmt.Sprintf("%04d%02d%02d%02d%02d", year, month, day, hour, minute)
TimePart(t) ==
  PadInt(t.Year, 4) \o PadInt(t.Month, 2) \o PadInt(t.Day, 2)
    \o PadInt(t.Hour, 2) \o PadInt(t.Minute, 2)

\* ------------------------------------------------------ name synthesis

\* Max(x, y)
Max(x, y) == IF x > y THEN x ELSE y

\* namesParts[lo:hi] (0-based, hi exclusive); Go panics outside 0 <= lo <= hi <= len
SliceInRange(parts, lo, hi) == 0 <= lo /\ lo <= hi /\ hi <= Len(parts)

Slice(parts, lo, hi) == SubSeq(parts, lo + 1, hi)

\* createSnapshotForDisk up to the loop: timePart, spaceLeft, namesParts and
\* the two window indices
SynthBegin(diskName, diskId, t) ==
  LET timePart   == TimePart(t)
      namesParts == Split(diskName, Hyphen)
  IN  [timePart      |-> timePart,
       diskId        |-> diskId,
       namesParts    |-> namesParts,
       namesPartsLen |-> Len(namesParts),
       spaceLeft     |-> MaxSnapshotName - Len(timePart) - Len(diskId),
       startPartEnd  |-> 0,
       endPartStart  |-> Len(namesParts),
       namePartIndex |-> 0]

\* the head test of the loop body: if spaceLeft > startPartLen
HeadStep(l) ==
  LET startPartLen == Len(l.namesParts[l.namePartIndex + 1])
  IN  IF l.spaceLeft > startPartLen
      THEN [l EXCEPT !.startPartEnd = @ + 1,
                     !.spaceLeft = @ - (startPartLen + 1)]
      ELSE l

\* the tail test of the loop body: if spaceLeft > endPartLen
TailStep(l) ==
  LET endPartLen == Len(l.namesParts[l.namesPartsLen - l.namePartIndex])
  IN  IF l.spaceLeft > endPartLen
      THEN [l EXCEPT !.endPartStart = @ - 1,
                     !.spaceLeft = @ - (endPartLen + 1)]
      ELSE l

\* one iteration of the loop: head test, tail test, namePartIndex++
LoopBody(l) == [TailStep(HeadStep(l)) EXCEPT !.namePartIndex = @ + 1]

RECURSIVE RunLoop(_)
RunLoop(l) ==
  IF l.namePartIndex < l.namesPartsLen THEN RunLoop(LoopBody(l)) ELSE l

\* the overlap test is missing
DropOverlapNever(l) == l

\* if startPartEnd >= endPartStart { endPartStart = namesPartsLen }
DropOverlap(l) ==
  IF l.startPartEnd >= l.endPartStart
  THEN [l EXCEPT !.endPartStart = l.namesPartsLen]
  ELSE l

\* the concatenation of the two windows, the id and the time part
JoinName(l) ==
  Join(Slice(l.namesParts, 0, l.startPartEnd), <<Hyphen>>) \o <<Hyphen>>
    \o Join(Slice(l.namesParts, l.endPartStart, l.namesPartsLen), <<Hyphen>>)
    \o <<Hyphen>> \o l.diskId \o <<Hyphen>> \o l.timePart

\* name = strings.Replace(name, "--", "-", -1)
CollapseHyphens(name) == Replace(name, <<Hyphen, Hyphen>>, <<Hyphen>>)

\* the name createSnapshotForDisk gives the snapshot
SynthEnd(l) == CollapseHyphens(JoinName(DropOverlap(l)))

SnapshotName(diskName, diskId, t) ==
  SynthEnd(RunLoop(SynthBegin(diskName, diskId, t)))

\* --------------------------------------------------------------- state

VARIABLES
  dryRun,               \* the --dry-run flag
  limit,                \* the --limit flag
  now,                  \* the clock createSnapshotForDisk reads (time.Now())
  cloud,                \* what the provider holds: its disks, each with its
                        \* snapshots newest first
  pc,                   \* where main is
  diskIndex,            \* main's loop variable
  disks,                \* main's disks slice
  creating,             \* the goroutines of the creation loop, by disk position
  snapshotsCreated,     \* channel
  cleaning,             \* the per-disk goroutines of the deletion loop, by disk position
  deleting,             \* the per-snapshot goroutines each of them started, in order
  oldSnapshotsDeleted,  \* channel
  commands,             \* bag of the gcloud commands getCommandResult has run
  reports,              \* the "Cleaned disk" lines logged, in order
  failed,               \* the command whose error made getCommandResult call log.Fatal
  firstPass,            \* what an earlier pass on the same inventory produced
  syn                   \* one activation of the name synthesis, step by step

flags    == <<dryRun, limit, now, cloud>>
mainVars == <<pc, diskIndex, disks>>
taskVars == <<creating, snapshotsCreated, cleaning, deleting, oldSnapshotsDeleted>>
histVars == <<commands, reports, failed>>
runVars  == <<flags, mainVars, taskVars, histVars>>
vars     == <<runVars, firstPass, syn>>

\* ----------------------------------------------------------- inventory

\* two clock readings; the second needs the zero padding of every field
Times ==
  { [Year |-> 2024, Month |-> 11, Day |-> 15, Hour |-> 12, Minute |-> 30],
    [Year |-> 2026, Month |-> 1, Day |-> 4, Hour |-> 9, Minute |-> 5] }

\* the creation time of the k-th newest pre-existing snapshot of a disk
OldTime(k) == [Year |-> 2023, Month |-> 12, Day |-> 28 - k, Hour |-> 3, Minute |-> 0]

DiskName(d) == <<"a", Hyphen>> \o Digits(d)
DiskId(d)   == Digits(7000 + d)
DiskZone(d) == IF d % 2 = 1 THEN "europe-west1-b" ELSE "europe-west1-c"

\* a snapshot an earlier run of the program made of disk d, as the provider lists it
OldSnapshot(d, k) ==
  [Name |-> SnapshotName(DiskName(d), DiskId(d), OldTime(k)),
   Id   |-> Digits(100 * d + k)]

\* the provider's disks when disk d has count[d] snapshots
Inventory(count) ==
  [d \in DOMAIN count |->
     [Name      |-> DiskName(d),
      Id        |-> DiskId(d),
      Zone      |-> DiskZone(d),
      Snapshots |-> [k \in 1..count[d] |-> OldSnapshot(d, k)]]]

Inventories ==
  {Inventory(count) : count \in UNION {[1..n -> 0..MaxSnaps] : n \in 0..MaxDisks}}

\* `gcloud beta compute disks list --filter ... --format json` unmarshalled
\* into []Disk: the listing has no snapshots field
ListedDisks == [d \in DOMAIN cloud |-> [cloud[d] EXCEPT !.Snapshots = <<>>]]

\* `gcloud beta compute snapshots list --sort-by ~creationTimestamp --filter
\* "sourceDiskId = <id>" --format json` unmarshalled into []Snapshot
ListedSnapshots(disk) ==
  LET d == CHOOSE d \in DOMAIN cloud : cloud[d].Id = disk.Id
  IN  cloud[d].Snapshots

\* the gcloud commands of the program, by what follows `beta compute`
ListDisksCommand == [kind |-> "disks list"]

ListSnapshotsCommand(disk) == [kind |-> "snapshots list", sourceDiskId |-> disk.Id]

CreateCommand(disk, name) ==
  [kind |-> "disks snapshot", disk |-> disk.Name, zone |-> disk.Zone,
   snapshotNames |-> name]

DeleteCommand(snapshot) == [kind |-> "snapshots delete", snapshot |-> snapshot.Name]

\* cmd.CombinedOutput(): the command has been run
Run(command) == commands' = commands (+) SetToBag({command})

\* no command has failed
NoCommand == [kind |-> "none"]

\* ------------------------------------------------------------- initial

NoPass == [done |-> FALSE]

SynIdle == [pc |-> "idle"]

InitRun ==
  /\ pc = "getDisks"
  /\ diskIndex = 0
  /\ disks = <<>>
  /\ creating = <<>>
  /\ snapshotsCreated = <<>>
  /\ cleaning = <<>>
  /\ deleting = <<>>
  /\ oldSnapshotsDeleted = <<>>
  /\ commands = EmptyBag
  /\ reports = <<>>
  /\ failed = NoCommand

Init ==
  /\ dryRun \in BOOLEAN
  /\ limit \in 0..MaxLimit
  /\ now \in Times
  /\ cloud \in Inventories
  /\ InitRun
  /\ firstPass = NoPass
  /\ syn = SynIdle

\* the process is alive: main has neither returned nor has log.Fatal exited
Running == pc \notin {"nodisk", "complete", "fatal"}

\* the error is logged and the program goes on
FatalOnlyLogs(command) == pc' = pc /\ failed' = command

\* cmdErr != nil: log.Fatal(cmdErr) in getCommandResult, that is os.Exit(1);
\* every goroutine dies with it
Fatal(command) == pc' = "fatal" /\ failed' = command

\* ---------------------------------------------------------------- main

\* the loop is left after its first iteration
AdvanceLeavesLoop(next) == diskIndex' = 0 /\ pc' = next

\* diskIndex++ and the loop test: stay in the loop or fall through to next
Advance(next) ==
  IF diskIndex + 1 < Len(disks)
  THEN diskIndex' = diskIndex + 1 /\ pc' = pc
  ELSE diskIndex' = 0 /\ pc' = next

\* the test of the empty list is missing: every loop runs zero times
AfterGetDisksNoReturn(listed) == IF Len(listed) = 0 THEN "complete" ELSE "getSnapshots"

\* if len(disks) == 0 { log.Println("No disk to snapshot"); return }
AfterGetDisks(listed) == IF Len(listed) = 0 THEN "nodisk" ELSE "getSnapshots"

\* disks, disksErr := getDisksToSnapshot(filter), and the empty-list return
GetDisks ==
  /\ pc = "getDisks"
  /\ Run(ListDisksCommand)
  /\ \/ /\ disks' = ListedDisks
        /\ pc' = AfterGetDisks(ListedDisks)
        /\ UNCHANGED failed
     \/ /\ Fatal(ListDisksCommand)
        /\ UNCHANGED disks
  /\ UNCHANGED <<flags, diskIndex, taskVars, reports, firstPass, syn>>

\* one iteration of the listing loop: disk.Snapshots = getDiskSnapshots(*disk)
GetDiskSnapshots ==
  /\ pc = "getSnapshots"
  /\ Run(ListSnapshotsCommand(disks[diskIndex + 1]))
  /\ \/ /\ disks' = [disks EXCEPT ![diskIndex + 1].Snapshots =
                                     ListedSnapshots(disks[diskIndex + 1])]
        /\ Advance("goCreate")
        /\ UNCHANGED failed
     \/ /\ Fatal(ListSnapshotsCommand(disks[diskIndex + 1]))
        /\ UNCHANGED <<disks, diskIndex>>
  /\ UNCHANGED <<flags, taskVars, reports, firstPass, syn>>

\* one iteration of the first creation loop: go func(disk Disk){...}(disks[diskIndex])
GoCreate ==
  /\ pc = "goCreate"
  /\ creating' = Append(creating, [pc |-> "create", disk |-> disks[diskIndex + 1]])
  /\ Advance("recvCreated")
  /\ UNCHANGED <<flags, disks, snapshotsCreated, cleaning, deleting,
                 oldSnapshotsDeleted, histVars, firstPass, syn>>

\* the received snapshot is dropped, the list is left as it was
PrependDropped(snapshotCreated, snapshots) == snapshots

\* the received snapshot is put behind the old snapshots
PrependAtEnd(snapshotCreated, snapshots) == snapshots \o <<snapshotCreated>>

\* newSnapshots: snapshotCreated at index 0, the old snapshots copied behind it
Prepend(snapshotCreated, snapshots) == <<snapshotCreated>> \o snapshots

\* one iteration of the second creation loop: receive a snapshot and prepend
\* it to disks[diskIndex].Snapshots
RecvCreated ==
  /\ pc = "recvCreated"
  /\ Len(snapshotsCreated) > 0
  /\ LET snapshotCreated == Head(snapshotsCreated)
     IN  disks' = [disks EXCEPT ![diskIndex + 1].Snapshots =
                                   Prepend(snapshotCreated, @)]
  /\ snapshotsCreated' = Tail(snapshotsCreated)
  /\ Advance("goClean")
  /\ UNCHANGED <<flags, creating, cleaning, deleting, oldSnapshotsDeleted,
                 histVars, firstPass, syn>>

\* the excess as if the limit did not count the snapshot just created
ExcessBeforeCreation(disk, lim) == Len(disk.Snapshots) - 1 - lim

\* diff := len(disk.Snapshots) - limit
Excess(disk, lim) == Len(disk.Snapshots) - lim

\* the loops start one index early
FirstDeletedOneEarly(lim) == Max(lim - 1, 0)

\* the first snapshotIndex of the per-disk goroutine's first loop: snapshotIndex := limit
FirstDeleted(lim) == lim

\* the receive loop starts one index late
FirstReceivedOneLate(lim) == lim + 1

\* the receive loop starts one index early
FirstReceivedOneEarly(lim) == Max(lim - 1, 0)

\* the first snapshotIndex of the per-disk goroutine's second loop: snapshotIndex := limit
FirstReceived(lim) == lim

\* one iteration of the first deletion loop
GoClean ==
  /\ pc = "goClean"
  /\ LET diskToClean == disks[diskIndex + 1]
         diff        == Excess(diskToClean, limit)
     IN  \/ /\ diff <= 0
            /\ Len(oldSnapshotsDeleted) < Len(disks)
            /\ oldSnapshotsDeleted' = Append(oldSnapshotsDeleted, diskToClean)
            /\ UNCHANGED <<cleaning, deleting>>
         \/ /\ diff > 0
            /\ cleaning' = cleaning @@
                 ((diskIndex + 1) :> [pc |-> "go", disk |-> diskToClean,
                                      snapshotIndex |-> FirstDeleted(limit),
                                      snapshotsDeletedForDisk |-> <<>>])
            /\ deleting' = deleting @@ ((diskIndex + 1) :> <<>>)
            /\ UNCHANGED oldSnapshotsDeleted
  /\ Advance("recvCleaned")
  /\ UNCHANGED <<flags, disks, creating, snapshotsCreated, histVars, firstPass, syn>>

\* Max(0, len(diskCleaned.Snapshots) - limit)
ReportedDeleted(diskCleaned, lim) == Max(0, Len(diskCleaned.Snapshots) - lim)

\* one iteration of the second deletion loop: receive a disk and log it cleaned
RecvCleaned ==
  /\ pc = "recvCleaned"
  /\ Len(oldSnapshotsDeleted) > 0
  /\ LET diskCleaned == Head(oldSnapshotsDeleted)
     IN  reports' = Append(reports,
           [Name |-> diskCleaned.Name, deleted |-> ReportedDeleted(diskCleaned, limit)])
  /\ oldSnapshotsDeleted' = Tail(oldSnapshotsDeleted)
  /\ Advance("complete")
  /\ UNCHANGED <<flags, disks, creating, snapshotsCreated, cleaning, deleting,
                 commands, failed, firstPass, syn>>

\* ------------------------------------------------- creation goroutines

\* a dry run that names the snapshot without the disk id
CreatedSnapshotDryWithoutId(disk, dry) ==
  [Name |-> SnapshotName(disk.Name, IF dry THEN <<>> ELSE disk.Id, now), Id |-> <<>>]

\* what createSnapshotForDisk is called on: a disk of the provider, at a
\* reading of the clock
SynthInputs == {<<DiskName(d), DiskId(d), t>> : d \in 1..MaxDisks, t \in Times}

\* the name createSnapshotForDisk synthesizes on each of them: SnapshotName,
\* tabulated so that it is evaluated once for an input
SnapshotNames == [i \in SynthInputs |-> SnapshotName(i[1], i[2], i[3])]

\* createSnapshotForDisk's result: Snapshot{Name: name}
CreatedSnapshot(disk, dry) ==
  [Name |-> SnapshotNames[<<disk.Name, disk.Id, now>>], Id |-> <<>>]

\* createSnapshotForDisk runs the provider command unless dryRun
CreateIssued(dry) == ~dry

\* the goroutine of disk position d calls createSnapshotForDisk(disk, dryRun)
CreateSnapshotForDisk(d) ==
  /\ Running
  /\ d \in DOMAIN creating
  /\ creating[d].pc = "create"
  /\ LET disk     == creating[d].disk
         snapshot == CreatedSnapshot(disk, dryRun)
         sent     == [creating EXCEPT ![d] =
                        [pc |-> "send", disk |-> disk, snapshot |-> snapshot]]
     IN  \/ /\ ~CreateIssued(dryRun)
            /\ creating' = sent
            /\ UNCHANGED <<pc, commands, failed>>
         \/ /\ CreateIssued(dryRun)
            /\ Run(CreateCommand(disk, snapshot.Name))
            /\ \/ /\ creating' = sent
                  /\ UNCHANGED <<pc, failed>>
               \/ /\ Fatal(CreateCommand(disk, snapshot.Name))
                  /\ UNCHANGED creating
  /\ UNCHANGED <<flags, diskIndex, disks, snapshotsCreated, cleaning, deleting,
                 oldSnapshotsDeleted, reports, firstPass, syn>>

\* snapshotsCreated <- snapshot
SendCreated(d) ==
  /\ Running
  /\ d \in DOMAIN creating
  /\ creating[d].pc = "send"
  /\ Len(snapshotsCreated) < Len(disks)
  /\ snapshotsCreated' = Append(snapshotsCreated, creating[d].snapshot)
  /\ creating' = [creating EXCEPT ![d].pc = "done"]
  /\ UNCHANGED <<flags, mainVars, cleaning, deleting, oldSnapshotsDeleted,
                 histVars, firstPass, syn>>

\* ------------------------------------------------- deletion goroutines

\* the snapshots are taken from the newest end of the list
SnapshotFromNewest(disk, snapshotIndex) ==
  disk.Snapshots[Len(disk.Snapshots) - snapshotIndex]

\* disk.Snapshots[snapshotIndex]
SnapshotAt(disk, snapshotIndex) == disk.Snapshots[snapshotIndex + 1]

\* one iteration of the per-disk goroutine's first loop:
\* go func(snapshotToDelete Snapshot){...}(disk.Snapshots[snapshotIndex])
GoDelete(d) ==
  /\ Running
  /\ d \in DOMAIN cleaning
  /\ cleaning[d].pc = "go"
  /\ LET c == cleaning[d]
     IN  /\ deleting' = [deleting EXCEPT ![d] = Append(@,
              [pc |-> "delete",
               snapshotToDelete |-> SnapshotAt(c.disk, c.snapshotIndex)])]
         /\ cleaning' = [cleaning EXCEPT ![d] =
              IF c.snapshotIndex + 1 < Len(c.disk.Snapshots)
              THEN [c EXCEPT !.snapshotIndex = @ + 1]
              ELSE [c EXCEPT !.snapshotIndex = FirstReceived(limit), !.pc = "recv"]]
  /\ UNCHANGED <<flags, mainVars, creating, snapshotsCreated,
                 oldSnapshotsDeleted, histVars, firstPass, syn>>

\* the dryRun test of deleteSnapshot is missing
DeleteAlwaysIssued(dry) == TRUE

\* deleteSnapshot runs the provider command unless dryRun
DeleteIssued(dry) == ~dry

\* the j-th goroutine started for disk position d calls deleteSnapshot
DeleteSnapshot(d, j) ==
  /\ Running
  /\ d \in DOMAIN deleting
  /\ j \in DOMAIN deleting[d]
  /\ deleting[d][j].pc = "delete"
  /\ \/ /\ ~DeleteIssued(dryRun)
        /\ deleting' = [deleting EXCEPT ![d][j].pc = "send"]
        /\ UNCHANGED <<pc, commands, failed>>
     \/ /\ DeleteIssued(dryRun)
        /\ Run(DeleteCommand(deleting[d][j].snapshotToDelete))
        /\ \/ /\ deleting' = [deleting EXCEPT ![d][j].pc = "send"]
              /\ UNCHANGED <<pc, failed>>
           \/ /\ Fatal(DeleteCommand(deleting[d][j].snapshotToDelete))
              /\ UNCHANGED deleting
  /\ UNCHANGED <<flags, diskIndex, disks, creating, snapshotsCreated, cleaning,
                 oldSnapshotsDeleted, reports, firstPass, syn>>

\* snapshotsDeletedForDisk <- snapshotToDelete
SendDeleted(d, j) ==
  /\ Running
  /\ d \in DOMAIN deleting
  /\ j \in DOMAIN deleting[d]
  /\ deleting[d][j].pc = "send"
  /\ Len(cleaning[d].snapshotsDeletedForDisk) < Excess(cleaning[d].disk, limit)
  /\ cleaning' = [cleaning EXCEPT ![d].snapshotsDeletedForDisk =
                    Append(@, deleting[d][j].snapshotToDelete)]
  /\ deleting' = [deleting EXCEPT ![d][j].pc = "done"]
  /\ UNCHANGED <<flags, mainVars, creating, snapshotsCreated,
                 oldSnapshotsDeleted, histVars, firstPass, syn>>

\* one iteration of the per-disk goroutine's second loop:
\* snapshotDeleted := <-snapshotsDeletedForDisk
RecvDeleted(d) ==
  /\ Running
  /\ d \in DOMAIN cleaning
  /\ cleaning[d].pc = "recv"
  /\ Len(cleaning[d].snapshotsDeletedForDisk) > 0
  /\ LET c == cleaning[d]
     IN  cleaning' = [cleaning EXCEPT ![d] =
           [c EXCEPT !.snapshotsDeletedForDisk = Tail(@),
                     !.snapshotIndex = @ + 1,
                     !.pc = IF c.snapshotIndex + 1 < Len(c.disk.Snapshots)
                            THEN "recv" ELSE "send"]]
  /\ UNCHANGED <<flags, mainVars, creating, snapshotsCreated, deleting,
                 oldSnapshotsDeleted, histVars, firstPass, syn>>

\* oldSnapshotsDeleted <- disk
SendCleaned(d) ==
  /\ Running
  /\ d \in DOMAIN cleaning
  /\ cleaning[d].pc = "send"
  /\ Len(oldSnapshotsDeleted) < Len(disks)
  /\ oldSnapshotsDeleted' = Append(oldSnapshotsDeleted, cleaning[d].disk)
  /\ cleaning' = [cleaning EXCEPT ![d].pc = "done"]
  /\ UNCHANGED <<flags, mainVars, creating, snapshotsCreated, deleting,
                 histVars, firstPass, syn>>

\* ------------------------------------------------------- specification

\* disk positions and per-disk goroutine numbers that can occur
Positions == 1..MaxDisks

Started == 1..(MaxSnaps + 1)

Next ==
  \/ GetDisks
  \/ GetDiskSnapshots
  \/ GoCreate
  \/ RecvCreated
  \/ GoClean
  \/ RecvCleaned
  \/ \E d \in Positions : CreateSnapshotForDisk(d)
  \/ \E d \in Positions : SendCreated(d)
  \/ \E d \in Positions : GoDelete(d)
  \/ \E d \in Positions, j \in Started : DeleteSnapshot(d, j)
  \/ \E d \in Positions, j \in Started : SendDeleted(d, j)
  \/ \E d \in Positions : RecvDeleted(d)
  \/ \E d \in Positions : SendCleaned(d)

\* one run of the program, from its start
Spec == Init /\ [][Next]_vars

\* one run of the program in which a goroutine that can take a step is not
\* left waiting forever: the scheduler runs every runnable goroutine and a
\* provider command that has been started returns
SpecLive == Spec /\ WF_vars(Next)

\* ------------------------------------- name synthesis, step by step

\* the disk names and ids the synthesis is run on: every name over NameChars
\* up to MaxNameLen, and ids that leave a spaceLeft of -1..MaxSpace or exceed
\* the whole budget
SynNames == StringsOf(NameChars, 1, MaxNameLen)

SynIds ==
  {Repeat("9", MaxSnapshotName - TimePartLen - space) : space \in (-1)..MaxSpace}
    \cup {Repeat("9", MaxSnapshotName + 1)}

\* the program not started, on an empty inventory
Parked ==
  /\ dryRun = TRUE
  /\ limit = 0
  /\ now = CHOOSE t \in Times : TRUE
  /\ cloud = <<>>
  /\ InitRun
  /\ firstPass = NoPass

InitSynth ==
  /\ Parked
  /\ syn \in {[pc |-> "begin", diskName |-> n, diskId |-> i, t |-> t] :
                n \in SynNames, i \in SynIds, t \in Times}

\* createSnapshotForDisk up to the loop
SynBegin ==
  /\ syn.pc = "begin"
  /\ syn' = [pc |-> "loop", diskName |-> syn.diskName, diskId |-> syn.diskId,
             t |-> syn.t, l |-> SynthBegin(syn.diskName, syn.diskId, syn.t)]
  /\ UNCHANGED <<runVars, firstPass>>

\* one iteration of the loop
SynLoop ==
  /\ syn.pc = "loop"
  /\ syn.l.namePartIndex < syn.l.namesPartsLen
  /\ syn' = [syn EXCEPT !.l = LoopBody(@)]
  /\ UNCHANGED <<runVars, firstPass>>

\* after the loop: the overlap test, the slices (which panic out of range),
\* the concatenation and the replacement
SynEnd ==
  /\ syn.pc = "loop"
  /\ syn.l.namePartIndex >= syn.l.namesPartsLen
  /\ LET l == DropOverlap(syn.l)
     IN  syn' = IF /\ SliceInRange(l.namesParts, 0, l.startPartEnd)
                   /\ SliceInRange(l.namesParts, l.endPartStart, l.namesPartsLen)
                THEN [pc |-> "done", diskName |-> syn.diskName,
                      diskId |-> syn.diskId, t |-> syn.t, l |-> l,
                      name |-> SynthEnd(syn.l)]
                ELSE [pc |-> "panic", diskName |-> syn.diskName,
                      diskId |-> syn.diskId, t |-> syn.t, l |-> l]
  /\ UNCHANGED <<runVars, firstPass>>

NextSynth == SynBegin \/ SynLoop \/ SynEnd

\* createSnapshotForDisk's name synthesis on every input of SynNames x SynIds x Times
SpecSynth == InitSynth /\ [][NextSynth]_vars

\* ------------------------------------------- two passes, one inventory

Range(f) == {f[x] : x \in DOMAIN f}

\* the goroutines started to delete a snapshot, as <<disk position, number>>
DeleteTasks == UNION {{<<d, j>> : j \in DOMAIN deleting[d]} : d \in DOMAIN deleting}

\* the snapshots a delete goroutine has been started for
Selected == {deleting[t[1]][t[2]].snapshotToDelete : t \in DeleteTasks}

\* the commands run that change what the provider holds
Mutating(command) == command.kind \in {"disks snapshot", "snapshots delete"}

MutatingRun == {c \in BagToSet(commands) : Mutating(c)}

ListingsRun == [c \in {c \in BagToSet(commands) : ~Mutating(c)} |-> CopiesIn(c, commands)]

\* what a pass that ran to its end produced: the name synthesized for each
\* disk, the snapshots selected for deletion, the count reported per disk
Outcome ==
  [done     |-> TRUE,
   dryRun   |-> dryRun,
   names    |-> [d \in DOMAIN creating |-> creating[d].snapshot.Name],
   selected |-> {x.Name : x \in Selected},
   deleted  |-> Range(reports),
   listings |-> ListingsRun]

\* the program is run again on the same inventory, limit and clock, in the other mode
Restart ==
  /\ pc \in {"complete", "nodisk"}
  /\ ~firstPass.done
  /\ firstPass' = Outcome
  /\ dryRun' = ~dryRun
  /\ pc' = "getDisks"
  /\ diskIndex' = 0
  /\ disks' = <<>>
  /\ creating' = <<>>
  /\ snapshotsCreated' = <<>>
  /\ cleaning' = <<>>
  /\ deleting' = <<>>
  /\ oldSnapshotsDeleted' = <<>>
  /\ commands' = EmptyBag
  /\ reports' = <<>>
  /\ failed' = NoCommand
  /\ UNCHANGED <<limit, now, cloud, syn>>

NextPair == Next \/ Restart

\* a pass in one mode, then a pass in the other mode on the same inventory
SpecPair == Init /\ [][NextPair]_vars

\* ---------------------------------------------------------- properties

Min(x, y) == IF x < y THEN x ELSE y

\* sub occurs in s
Contains(s, sub) ==
  \E i \in 1..(Len(s) - Len(sub) + 1) : SubSeq(s, i, i + Len(sub) - 1) = sub

\* N: the number of snapshots the provider lists for the disk at position d
Existing(d) == Len(cloud[d].Snapshots)

\* the new snapshot has been prepended to the snapshots of the disk at position d
Prepended(d) == Len(disks[d].Snapshots) = Existing(d) + 1

\* the snapshot name ends the way createSnapshotForDisk ends a name of this disk
CarriesId(name, id) == Contains(name, <<Hyphen>> \o id \o <<Hyphen>>)

\* the snapshots createSnapshotForDisk has returned in this run
CreatedThisRun ==
  {creating[d].snapshot : d \in {e \in DOMAIN creating : creating[e].pc # "create"}}

\* the snapshot createSnapshotForDisk has returned for the disk at position d
CreatedFor(d) ==
  IF d \in DOMAIN creating /\ creating[d].pc # "create"
  THEN {creating[d].snapshot} ELSE {}

\* the names of the snapshots a delete command has been run for
DeleteRequested == {c.snapshot : c \in {c \in MutatingRun : c.kind = "snapshots delete"}}

\* the delete goroutines started for the disk at position d
StartedFor(d) == IF d \in DOMAIN deleting THEN Len(deleting[d]) ELSE 0

\* the counts logged in "Cleaned disk" lines for the disk at position d
ReportedFor(d) == {r.deleted : r \in {r \in Range(reports) : r.Name = cloud[d].Name}}

\* how many "Cleaned disk" lines name the disk at position d
ReportsFor(d) == Cardinality({i \in DOMAIN reports : reports[i].Name = cloud[d].Name})

\* the pre-existing snapshots of the disk at position d no delete goroutine was started for
KeptExisting(d) ==
  Cardinality({k \in 1..Existing(d) : cloud[d].Snapshots[k] \notin Selected})

\* the same, counting the snapshot created for the disk in this run
KeptInAll(d) ==
  KeptExisting(d) + (IF creating[d].snapshot \notin Selected THEN 1 ELSE 0)

\* C1: the snapshot prepended to a disk's snapshots is the one created for
\* that disk: its name carries that disk's id.
C1_PrependedIsOwnSnapshot ==
  \A d \in DOMAIN disks :
    Prepended(d) => /\ disks[d].Snapshots[1] \in CreatedFor(d)
                    /\ CarriesId(disks[d].Snapshots[1].Name, disks[d].Id)

\* C2 as stated: for every limit >= 0, no delete goroutine is started and no
\* delete command is run for a snapshot created in the same run.
C2_NewNeverDeleted ==
  /\ Selected \cap CreatedThisRun = {}
  /\ DeleteRequested \cap {x.Name : x \in CreatedThisRun} = {}

\* C2 amended: for every limit >= 1, no delete goroutine is started and no
\* delete command is run for a snapshot created in the same run.
C2_NewNeverDeletedAboveZero == limit >= 1 => C2_NewNeverDeleted

C2_Witness ==
  /\ limit >= 1
  /\ ~dryRun
  /\ pc = "complete"
  /\ DeleteRequested # {}
  /\ CreatedThisRun # {}

\* C5 as stated: after a complete run a disk with N pre-existing snapshots
\* keeps min(N, limit) of them and max(0, N - limit) is reported deleted.
C5_KeepsLimitExisting ==
  pc = "complete" =>
    \A d \in DOMAIN cloud :
      /\ KeptExisting(d) = Min(Existing(d), limit)
      /\ ReportedFor(d) = {Max(0, Existing(d) - limit)}

\* C5 amended: after a complete run a disk with N pre-existing snapshots keeps
\* min(N, max(limit - 1, 0)) of them, min(N + 1, limit) snapshots counting the
\* one created for it in the run, and max(0, N + 1 - limit) is reported
\* deleted; outside dry-run the delete commands run are those of the
\* snapshots not kept.
C5_KeepsLimitInAll ==
  pc = "complete" =>
    /\ \A d \in DOMAIN cloud :
         /\ KeptExisting(d) = Min(Existing(d), Max(limit - 1, 0))
         /\ KeptInAll(d) = Min(Existing(d) + 1, limit)
         /\ ReportedFor(d) = {Max(0, Existing(d) + 1 - limit)}
    /\ ~dryRun => DeleteRequested = {x.Name : x \in Selected}

C5_Witness ==
  /\ pc = "complete"
  /\ limit >= 1
  /\ \E d \in DOMAIN cloud : Existing(d) >= limit /\ StartedFor(d) >= 1

\* C6: the excess is computed on the post-creation list: for a disk with N
\* pre-existing snapshots the delete goroutines started and the count
\* reported are both max(0, N + 1 - limit), once per disk.
C6_ExcessCountsNewSnapshot ==
  /\ \A d \in DOMAIN cleaning :
       cleaning[d].pc # "go" => StartedFor(d) = Max(0, Existing(d) + 1 - limit)
  /\ \A d \in DOMAIN cloud :
       /\ ReportedFor(d) \subseteq {Max(0, Existing(d) + 1 - limit)}
       /\ StartedFor(d) <= Max(0, Existing(d) + 1 - limit)
  /\ pc = "complete" =>
       \A d \in DOMAIN cloud :
         /\ StartedFor(d) = Max(0, Existing(d) + 1 - limit)
         /\ ReportsFor(d) = 1
         /\ ReportedFor(d) = {Max(0, Existing(d) + 1 - limit)}
         /\ Existing(d) = limit => StartedFor(d) = 1

C6_Witness ==
  /\ pc = "complete"
  /\ \E d \in DOMAIN cloud :
       Existing(d) = limit /\ StartedFor(d) = 1 /\ ReportedFor(d) = {1}

C8_DryRunNeverMutates ==
  dryRun => /\ MutatingRun = {}
            /\ \A c \in BagToSet(commands) : c.kind \in {"disks list", "snapshots list"}

C8_Witness ==
  /\ dryRun
  /\ pc = "complete"
  /\ Selected # {}
  /\ CreatedThisRun # {}
  /\ BagToSet(commands) # {}

\* C9: a dry-run pass and a non-dry-run pass on the same inventory, limit and
\* clock, both run to their end, synthesize the same name for each disk,
\* select the same snapshots for deletion, report the same count for each
\* disk and run the same listings; only the non-dry-run pass runs the create
\* and delete commands, one per disk and one per selected snapshot.
C9_DryRunSameOutcome ==
  (firstPass.done /\ pc \in {"complete", "nodisk"}) =>
    /\ firstPass.dryRun # dryRun
    /\ firstPass.names = Outcome.names
    /\ firstPass.selected = Outcome.selected
    /\ firstPass.deleted = Outcome.deleted
    /\ firstPass.listings = Outcome.listings
    /\ MutatingRun =
         IF dryRun THEN {}
         ELSE {CreateCommand(creating[d].disk, creating[d].snapshot.Name) :
                 d \in DOMAIN creating}
              \cup {DeleteCommand(x) : x \in Selected}

C9_Witness ==
  /\ firstPass.done
  /\ pc = "complete"
  /\ Len(disks) >= 2
  /\ firstPass.selected # {}
  /\ \E r \in firstPass.deleted : r.deleted >= 1

\* the deletion phase has begun: an excess has been computed or a delete
\* goroutine, command or report exists
DeletionBegun ==
  \/ DOMAIN cleaning # {}
  \/ DOMAIN deleting # {}
  \/ Len(oldSnapshotsDeleted) > 0
  \/ Len(reports) > 0
  \/ DeleteRequested # {}
  \/ pc \in {"recvCleaned", "complete"}
  \/ pc = "goClean" /\ diskIndex > 0

\* every disk's creation goroutine has sent its snapshot and returned, and
\* main has received and prepended one snapshot per disk
AllCreatedAndCollected ==
  /\ Len(creating) = Len(disks)
  /\ \A d \in DOMAIN creating : creating[d].pc = "done"
  /\ Len(snapshotsCreated) = 0
  /\ \A d \in DOMAIN disks : Prepended(d)

\* C10: nothing of the deletion phase happens, not the first excess
\* computation either, until every creation goroutine has completed and its
\* result has been collected.
C10_CreateBeforeDelete ==
  (DeletionBegun \/ pc = "goClean") => AllCreatedAndCollected

C10_Witness ==
  /\ Len(disks) >= 2
  /\ DOMAIN deleting # {}
  /\ DeleteRequested # {}

\* ------------------------------------------- properties of the failures

\* the provider call that failed, by its kind
CreateFailed == failed.kind = "disks snapshot"

ListingFailed == failed.kind \in {"disks list", "snapshots list"}

DeleteFailed == failed.kind = "snapshots delete"

\* the process has exited with a failure: main is neither complete nor able
\* to take a step, and no goroutine is
EndedFatal == pc = "fatal" /\ ~ENABLED Next

\* C11: once a create command has failed, whatever the other creation
\* goroutines have done by then, the run has ended in a fatal failure and no
\* delete command has been run, no delete goroutine started and no excess
\* computed for any disk.
C11_CreateFailureIsFatal ==
  CreateFailed =>
    /\ EndedFatal
    /\ DeleteRequested = {}
    /\ DeleteTasks = {}
    /\ ~DeletionBegun

C11_Witness ==
  /\ CreateFailed
  /\ Len(disks) >= 2
  /\ \E d \in DOMAIN creating : creating[d].pc = "done"
  /\ Prepended(1)

\* C12: once the disk listing or a snapshot listing has failed, the run has
\* ended in a fatal failure with no create or delete command run, no creation
\* goroutine started and nothing of the deletion phase begun.
C12_ListingFailureIsFatal ==
  ListingFailed =>
    /\ EndedFatal
    /\ MutatingRun = {}
    /\ Len(creating) = 0
    /\ DeleteTasks = {}
    /\ ~DeletionBegun

C12_Witness ==
  /\ failed.kind = "snapshots list"
  /\ ~dryRun
  /\ diskIndex = 1
  /\ Len(disks[1].Snapshots) >= 1

\* the snapshot of that name is a snapshot of the disk at position d: the
\* provider lists it for the disk, or it was created from the disk in this run
Owns(d, name) ==
  \/ \E k \in 1..Existing(d) : cloud[d].Snapshots[k].Name = name
  \/ \E x \in CreatedFor(d) : x.Name = name

\* the delete goroutine of the failed command was started for the disk at position d
FailedIn(d) ==
  /\ d \in DOMAIN deleting
  /\ \E j \in DOMAIN deleting[d] :
       /\ deleting[d][j].pc = "delete"
       /\ DeleteCommand(deleting[d][j].snapshotToDelete) = failed

\* C13: once a delete command has failed the run has ended in a fatal
\* failure, so "Backup complete" is never reached, and no "Cleaned disk" line
\* names the disk the failed snapshot is a snapshot of.
C13_DeleteFailureIsFatal ==
  DeleteFailed =>
    /\ EndedFatal
    /\ \A d \in DOMAIN cloud : Owns(d, failed.snapshot) => ReportsFor(d) = 0

\* the same with the disk in whose list the failed snapshot stood
C13_ListHolderNotReported ==
  DeleteFailed =>
    /\ EndedFatal
    /\ \E d \in DOMAIN cloud : FailedIn(d)
    /\ \A d \in DOMAIN cloud : FailedIn(d) => ReportsFor(d) = 0

\* ------------------------------------ properties of a successful run

\* the create commands run
CreateRequested == {c \in MutatingRun : c.kind = "disks snapshot"}

\* the create commands run for the disk at position d
CreateRequestedFor(d) ==
  {c \in CreateRequested : c.disk = cloud[d].Name /\ c.zone = cloud[d].Zone}

\* the creation phase is over: main has left the receive loop
CreationOver == pc \in {"goClean", "recvCleaned", "complete"}

\* C14: outside dry-run and with no command failed, never more than one create
\* command is run for a disk; once the creation phase is over exactly one has
\* been run for each listed disk, with the disk's name and zone and the name
\* synthesized for it, and no other, and from then on
\* each disk's snapshots are one snapshot created in this run at index 0
\* followed by the snapshots the provider listed for the disk, every snapshot
\* created standing in one list.
C14_OneCreatePerDisk ==
  (~dryRun /\ failed = NoCommand) =>
    /\ \A c \in CreateRequested :
         /\ CopiesIn(c, commands) = 1
         /\ \E d \in DOMAIN disks : c \in CreateRequestedFor(d)
    /\ \A d \in DOMAIN disks : Cardinality(CreateRequestedFor(d)) <= 1
    /\ CreationOver =>
         /\ Len(disks) = Len(cloud)
         /\ \A d \in DOMAIN disks :
              CreateRequestedFor(d) =
                {CreateCommand(cloud[d], SnapshotName(cloud[d].Name, cloud[d].Id, now))}
         /\ \A d \in DOMAIN disks :
              /\ Len(disks[d].Snapshots) = Existing(d) + 1
              /\ Tail(disks[d].Snapshots) = cloud[d].Snapshots
              /\ disks[d].Snapshots[1] \in CreatedThisRun
         /\ Cardinality({disks[d].Snapshots[1] : d \in DOMAIN disks}) = Len(disks)

C14_Witness ==
  /\ ~dryRun
  /\ failed = NoCommand
  /\ pc = "goClean"
  /\ diskIndex = 0
  /\ Len(disks) >= 2
  /\ \E d \in DOMAIN disks : Existing(d) >= 2

\* C15: when the provider has no disk the listing leads to the return of
\* "No disk to snapshot" and nowhere else; there the run has ended without a
\* failure, the one command run is the disk listing, and no creation
\* goroutine, no deletion goroutine and no report exists.
C15_EmptyListCompletes ==
  /\ (Len(cloud) = 0 /\ pc # "getDisks" /\ failed = NoCommand) => pc = "nodisk"
  /\ pc = "nodisk" =>
       /\ Len(cloud) = 0
       /\ failed = NoCommand
       /\ ~ENABLED Next
       /\ commands = SetToBag({ListDisksCommand})
       /\ MutatingRun = {}
       /\ Len(creating) = 0
       /\ DOMAIN cleaning = {}
       /\ DeleteTasks = {}
       /\ Len(reports) = 0

C15_Witness ==
  /\ pc = "nodisk"
  /\ ~dryRun
  /\ Len(disks) = 0
  /\ BagCardinality(commands) = 1

\* ------------------------------------------- properties of the names

\* the id leaves room for the time part and three separators
IdFits(id) == Len(id) + TimePartLen + 3 <= MaxSnapshotName

\* C3: when len(id) + 12 + 3 <= 55 the synthesized name is at most 55 long.
C3_NameWithinMax ==
  (syn.pc = "done" /\ IdFits(syn.diskId)) => Len(syn.name) <= MaxSnapshotName

\* C4: when len(id) + 12 + 3 <= 55 the synthesized name holds no "--",
\* whatever hyphens the disk name holds.
C4_NoDoubleHyphen ==
  (syn.pc = "done" /\ IdFits(syn.diskId)) =>
    ~Contains(syn.name, <<Hyphen, Hyphen>>)

\* the synthesis has its loop variables
InSynthesis == syn.pc \in {"loop", "done"}

\* the id leaves no budget: spaceLeft starts at 0 or below
NoBudget(id) == MaxSnapshotName - TimePartLen - Len(id) <= 0

\* what C16 says of every step of the synthesis but the name with no budget:
\* no slice is out of range, the synthesis is at a step it can take or has
\* returned, the loop runs namesPartsLen times at most, both indices stay in
\* 0..namesPartsLen, the head ends no later than the tail starts at the join,
\* and with no budget no segment is admitted
SynthesisTotal ==
  /\ syn.pc \in {"begin", "loop", "done"}
  /\ InSynthesis =>
       /\ syn.l.namesPartsLen = Len(syn.l.namesParts)
       /\ syn.l.namePartIndex \in 0..syn.l.namesPartsLen
       /\ syn.l.startPartEnd \in 0..syn.l.namesPartsLen
       /\ syn.l.endPartStart \in 0..syn.l.namesPartsLen
       /\ NoBudget(syn.diskId) =>
            syn.l.startPartEnd = 0 /\ syn.l.endPartStart = syn.l.namesPartsLen
  /\ syn.pc = "done" =>
       /\ syn.l.namePartIndex = syn.l.namesPartsLen
       /\ syn.l.startPartEnd <= syn.l.endPartStart

\* C16 as stated: the synthesis is total, the indices stay in range, and with
\* no budget the name is the id and the time part joined by a hyphen.
C16_SynthesisTotalIdAndTime ==
  /\ SynthesisTotal
  /\ (syn.pc = "done" /\ NoBudget(syn.diskId)) =>
       syn.name = syn.diskId \o <<Hyphen>> \o TimePart(syn.t)

\* C16 amended: the synthesis is total, the indices stay in range, and with
\* no budget the name is a hyphen, standing for the two empty windows,
\* followed by the id and the time part joined by a hyphen.
C16_SynthesisTotalLeadingHyphen ==
  /\ SynthesisTotal
  /\ (syn.pc = "done" /\ NoBudget(syn.diskId)) =>
       syn.name = <<Hyphen>> \o syn.diskId \o <<Hyphen>> \o TimePart(syn.t)

C16_Witness ==
  /\ syn.pc = "done"
  /\ Len(syn.diskId) > MaxSnapshotName
  /\ syn.l.namesPartsLen >= 3
  /\ syn.l.startPartEnd = 0

\* the sum of len(segment) + 1 over the segments of namesParts[lo:hi]
RECURSIVE Cost(_, _, _)
Cost(parts, lo, hi) ==
  IF lo >= hi THEN 0 ELSE Len(parts[lo + 1]) + 1 + Cost(parts, lo + 1, hi)

\* the sum of len(segment) + 1 over the segments that stand in the name: those
\* of the head window and of the tail window that are joined
CostInName(l) ==
  Cost(l.namesParts, 0, l.startPartEnd)
    + Cost(l.namesParts, l.endPartStart, l.namesPartsLen)

\* spaceLeft as createSnapshotForDisk first sets it, nothing when it is negative
InitialSpace(id) == Max(MaxSnapshotName - TimePartLen - Len(id), 0)

\* C17: the sum of len(segment) + 1 over the segments that stand in the final
\* name never exceeds the initial spaceLeft = 55 - 12 - len(id).
C17_AdmittedWithinBudget ==
  syn.pc = "done" => CostInName(syn.l) <= InitialSpace(syn.diskId)

\* ------------------------------------ properties of the deletion fan-in

\* every delete goroutine of the disk at position d has been started, has had
\* its delete succeed (outside dry-run the command has been run) and has sent
\* its snapshot, and the per-disk goroutine has received them all
AllDeletedFor(d) ==
  /\ StartedFor(d) = Excess(disks[d], limit)
  /\ \A j \in DOMAIN deleting[d] :
       /\ deleting[d][j].pc = "done"
       /\ ~dryRun => deleting[d][j].snapshotToDelete.Name \in DeleteRequested
  /\ Len(cleaning[d].snapshotsDeletedForDisk) = 0

\* the disk at position d has been sent on oldSnapshotsDeleted
SentCleaned(d) ==
  \/ ReportsFor(d) >= 1
  \/ \E i \in DOMAIN oldSnapshotsDeleted : oldSnapshotsDeleted[i].Name = disks[d].Name

\* C18: a disk with excess snapshots is sent on oldSnapshotsDeleted, and so
\* reported cleaned, only after every delete goroutine started for it has
\* completed; it is reported once at most; and at "Backup complete" one report
\* has been logged for every disk and no goroutine is left unfinished.
C18_ReportAfterAllDeleted ==
  /\ \A d \in DOMAIN cleaning :
       /\ cleaning[d].pc \in {"send", "done"} => AllDeletedFor(d)
       /\ SentCleaned(d) => cleaning[d].pc = "done" /\ AllDeletedFor(d)
  /\ \A d \in DOMAIN disks : ReportsFor(d) <= 1
  /\ pc = "complete" =>
       /\ Len(reports) = Len(disks)
       /\ Len(oldSnapshotsDeleted) = 0
       /\ \A d \in DOMAIN disks : ReportsFor(d) = 1
       /\ \A d \in DOMAIN cleaning : cleaning[d].pc = "done"

C18_Witness ==
  /\ Len(disks) >= 2
  /\ \E d \in DOMAIN cleaning : ReportsFor(d) = 1 /\ StartedFor(d) >= 2
  /\ \E e \in DOMAIN deleting :
       /\ Len(deleting[e]) >= 2
       /\ deleting[e][2].pc = "done"
       /\ deleting[e][1].pc = "delete"

\* ------------------------------------------- properties of termination

\* a goroutine that has reached a send finds room in the channel's buffer
SendsNeverBlock ==
  /\ \A d \in DOMAIN creating :
       creating[d].pc = "send" => Len(snapshotsCreated) < Len(disks)
  /\ \A t \in DeleteTasks :
       deleting[t[1]][t[2]].pc = "send" =>
         Len(cleaning[t[1]].snapshotsDeletedForDisk)
           < Len(cleaning[t[1]].disk.Snapshots) - limit
  /\ \A d \in DOMAIN cleaning :
       cleaning[d].pc = "send" => Len(oldSnapshotsDeleted) < Len(disks)
  /\ pc = "goClean" => Len(oldSnapshotsDeleted) < Len(disks)

\* every goroutine started has returned and every channel is empty
TasksDone ==
  /\ \A d \in DOMAIN creating : creating[d].pc = "done"
  /\ \A d \in DOMAIN cleaning : cleaning[d].pc = "done"
  /\ \A t \in DeleteTasks : deleting[t[1]][t[2]].pc = "done"
  /\ \A d \in DOMAIN cleaning : Len(cleaning[d].snapshotsDeletedForDisk) = 0
  /\ Len(snapshotsCreated) = 0
  /\ Len(oldSnapshotsDeleted) = 0

\* "Backup complete!" has been logged with one report per disk of the
\* provider and nothing left running
BackupComplete ==
  /\ pc = "complete"
  /\ Len(disks) = Len(cloud)
  /\ Len(creating) = Len(disks)
  /\ Len(reports) = Len(disks)
  /\ TasksDone

\* C19 as stated: no send ever finds its channel full, and a run in which no
\* command fails eventually reaches "Backup complete!" with no goroutine left,
\* whatever the number of disks.
C19_EventuallyBackupComplete ==
  /\ []SendsNeverBlock
  /\ [](failed = NoCommand) => <>BackupComplete

\* C19 amended: no send ever finds its channel full, and a run in which no
\* command fails eventually reaches "Backup complete!" with no goroutine left
\* when the provider lists a disk, and the return of "No disk to snapshot"
\* when it lists none.
C19_EventuallyCompleteOrNoDisk ==
  /\ []SendsNeverBlock
  /\ [](failed = NoCommand) =>
       <>(IF Len(cloud) = 0 THEN pc = "nodisk" ELSE BackupComplete)

C19_Witness ==
  /\ BackupComplete
  /\ failed = NoCommand
  /\ Len(disks) >= 2
  /\ \E d \in DOMAIN deleting : StartedFor(d) >= 2
  /\ \E d \in DOMAIN disks : d \notin DOMAIN cleaning

\* ------------------------------------- properties of names that fit

\* s with every run of hyphens collapsed to one hyphen
RECURSIVE CollapseAll(_)
CollapseAll(s) ==
  IF Len(s) < 2 THEN s
  ELSE IF s[1] = Hyphen /\ s[2] = Hyphen THEN CollapseAll(Tail(s))
       ELSE <<s[1]>> \o CollapseAll(Tail(s))

\* len(diskName) + 1 <= 55 - 12 - len(id)
WholeNameFits(diskName, id) ==
  Len(diskName) + 1 <= MaxSnapshotName - TimePartLen - Len(id)

\* the loop of the synthesis has run to its end and the overlap test is next
LoopOver == syn.pc = "loop" /\ syn.l.namePartIndex >= syn.l.namesPartsLen

\* C20: when len(diskName) + 1 <= 55 - 12 - len(id) the synthesized name is
\* the whole disk name, the id and the time part joined by hyphens, runs of
\* hyphens collapsed; and the overlap test discards the tail window only when
\* the head window ends behind the tail window's start.
C20_WholeNameKept ==
  /\ (syn.pc = "done" /\ WholeNameFits(syn.diskName, syn.diskId)) =>
       syn.name = CollapseAll(syn.diskName \o <<Hyphen>> \o syn.diskId
                                \o <<Hyphen>> \o TimePart(syn.t))
  /\ (LoopOver /\ WholeNameFits(syn.diskName, syn.diskId)) =>
       (DropOverlap(syn.l) # syn.l => syn.l.startPartEnd > syn.l.endPartStart)

====
